---------------------------- MODULE Spec2Model ----------------------------
(***************************************************************************)
(* Model of text_extractor.py: the batch run of main() (environment check, *)
(* discovery and sorting of the images, the detail pass that writes the    *)
(* report, the summary pass that writes the summary) and the extraction    *)
(* client extract_text_from_image().                                       *)
(*                                                                         *)
(* A Python str is a sequence of characters; a character is a one-element  *)
(* string, and "deg" stands for the single character U+00B0 (the degree    *)
(* sign).  The file system is shared by the runs; a run is one process     *)
(* executing main().                                                       *)
(***************************************************************************)
EXTENDS Integers, Sequences, FiniteSets, TLC

(***************************************************************************)
(* Bounds of the model.                                                    *)
(***************************************************************************)
\* The largest number of entries the listing of the images directory holds.
MaxFiles == 2
\* Clock ticks per wall-clock second (the clock is finer than the one-second
\* resolution of the timestamp format).
TicksPerSecond == 2
\* The largest number of ticks that pass between two readings of the clock.
MaxAdvance == 1

(***************************************************************************)
(* Python str operations used by the program.                              *)
(***************************************************************************)
\* ord(c) for the characters that occur in paths.
CodePoint(c) ==
    CASE c = "." -> 46  [] c = "/" -> 47
      [] c = "B" -> 66  [] c = "C" -> 67  [] c = "G" -> 71  [] c = "J" -> 74
      [] c = "M" -> 77  [] c = "P" -> 80
      [] c = "a" -> 97  [] c = "b" -> 98  [] c = "c" -> 99  [] c = "e" -> 101
      [] c = "f" -> 102 [] c = "g" -> 103 [] c = "i" -> 105 [] c = "j" -> 106
      [] c = "m" -> 109 [] c = "n" -> 110 [] c = "p" -> 112 [] c = "s" -> 115
      [] c = "t" -> 116 [] c = "x" -> 120

\* str.lower(), character by character.
LowerChar(c) ==
    CASE c = "B" -> "b" [] c = "C" -> "c" [] c = "G" -> "g" [] c = "J" -> "j"
      [] c = "M" -> "m" [] c = "P" -> "p" [] OTHER -> c

lower(s) == [k \in 1..Len(s) |-> LowerChar(s[k])]

\* str.endswith(suffix)
endswith(s, suffix) ==
    /\ Len(suffix) <= Len(s)
    /\ SubSeq(s, Len(s) - Len(suffix) + 1, Len(s)) = suffix

\* str.startswith(prefix)
startswith(s, prefix) ==
    /\ Len(prefix) <= Len(s)
    /\ SubSeq(s, 1, Len(prefix)) = prefix

\* s < t for two str: the first differing code point decides, a proper
\* prefix is smaller.
RECURSIVE StrLess(_, _)
StrLess(s, t) ==
    IF t = <<>> THEN FALSE
    ELSE IF s = <<>> THEN TRUE
    ELSE IF Head(s) = Head(t) THEN StrLess(Tail(s), Tail(t))
    ELSE CodePoint(Head(s)) < CodePoint(Head(t))

\* str.isspace() of one character.
IsSpace(c) == c \in {" ", "\n", "\t", "\r"}

RECURSIVE lstrip(_)
lstrip(s) ==
    IF s # <<>> /\ IsSpace(Head(s)) THEN lstrip(Tail(s)) ELSE s

RECURSIVE rstrip(_)
rstrip(s) ==
    IF s # <<>> /\ IsSpace(s[Len(s)]) THEN rstrip(SubSeq(s, 1, Len(s) - 1)) ELSE s

\* str.strip()
strip(s) == rstrip(lstrip(s))

\* str.split(): the maximal runs of non-whitespace characters, in order.
\* SplitFrom(s, cur, acc): cur is the word being read, acc the words read.
RECURSIVE SplitFrom(_, _, _)
SplitFrom(s, cur, acc) ==
    IF s = <<>> THEN (IF cur = <<>> THEN acc ELSE Append(acc, cur))
    ELSE IF IsSpace(Head(s))
         THEN SplitFrom(Tail(s), <<>>, IF cur = <<>> THEN acc ELSE Append(acc, cur))
         ELSE SplitFrom(Tail(s), Append(cur, Head(s)), acc)

split(s) == SplitFrom(s, <<>>, <<>>)

\* list.sort() of a list of str: the sorted list (insertion of each element
\* after the elements that are not greater, so equal elements keep their order).
RECURSIVE Insert(_, _)
Insert(sorted, x) ==
    IF sorted = <<>> THEN <<x>>
    ELSE IF StrLess(x, Head(sorted)) THEN <<x>> \o sorted
    ELSE <<Head(sorted)>> \o Insert(Tail(sorted), x)

\* The mutant of sort that keeps the order of the listing.
sortOmitted(list) == list

RECURSIVE sort(_)
sort(list) ==
    IF list = <<>> THEN <<>>
    ELSE Insert(sort(SubSeq(list, 1, Len(list) - 1)), list[Len(list)])


(***************************************************************************)
(* Paths and file names.                                                   *)
(***************************************************************************)
\* main(), line 133
images_dir == <<"i", "m", "a", "g", "e", "s">>
\* main(), line 128: the output directory "extracted_text"
output_dir == "extracted_text"
\* main(), line 134
image_extensions ==
    << <<".", "j", "p", "g">>, <<".", "j", "p", "e", "g">>,
       <<".", "p", "n", "g">>, <<".", "b", "m", "p">>,
       <<".", "t", "i", "f", "f">>, <<".", "t", "i", "f">> >>

\* os.path.join(a, b) for a relative b
join(a, b) == a \o <<"/">> \o b

\* os.path.basename(p): what follows the last "/"
RECURSIVE basename(_)
basename(p) ==
    IF \E k \in 1..Len(p) : p[k] = "/" THEN basename(Tail(p)) ELSE p

\* main(), line 138: the test that keeps a directory entry
IsImageFile(file) ==
    \E k \in 1..Len(image_extensions) : endswith(lower(file), image_extensions[k])

\* main(), lines 136-139: the kept entries, joined to the directory, in the
\* order of the listing
RECURSIVE CollectImages(_)
CollectImages(entries) ==
    IF entries = <<>> THEN <<>>
    ELSE (IF IsImageFile(Head(entries)) THEN <<join(images_dir, Head(entries))>> ELSE <<>>)
         \o CollectImages(Tail(entries))

\* The entries a listing of the images directory may hold.
FileNames ==
    { <<"a", ".", "j", "p", "g">>, <<"b", ".", "p", "n", "g">>,
      <<"C", ".", "B", "M", "P">>, <<"n", ".", "t", "x", "t">> }

(***************************************************************************)
(* The run timestamp.                                                      *)
(***************************************************************************)
Digits == <<"0", "1", "2", "3", "4", "5", "6", "7", "8", "9">>

\* "%02d"
Pad2(n) == <<Digits[(n \div 10) + 1], Digits[(n % 10) + 1]>>

\* The wall-clock second a clock reading falls in.
WallSecond(t) == t \div TicksPerSecond

\* The date digits "%Y%m%d": every reading of the model falls on one day.
DateDigits == <<"Y", "Y", "Y", "Y", "m", "m", "d", "d">>

\* The mutant of strftime with the format "%Y%m%d_%H%M".
strftimeMinutes(t) ==
    LET sec == WallSecond(t)
    IN  DateDigits \o <<"_">> \o Pad2((sec \div 3600) % 24) \o Pad2((sec \div 60) % 60)

\* datetime.strftime("%Y%m%d_%H%M%S") of a reading t (ticks since midnight)
strftime(t) ==
    LET sec == WallSecond(t)
    IN  DateDigits \o <<"_">> \o Pad2((sec \div 3600) % 24)
          \o Pad2((sec \div 60) % 60) \o Pad2(sec % 60)

\* main(), line 150: os.path.join(output_dir, f"extracted_text_{timestamp}.txt"),
\* kept as its components
ReportPath(timestamp) == <<output_dir, "extracted_text_", timestamp, ".txt">>
\* main(), line 179: os.path.join(output_dir, f"summary_{timestamp}.txt")
SummaryPath(timestamp) == <<output_dir, "summary_", timestamp, ".txt">>

(***************************************************************************)
(* The extraction client.                                                  *)
(***************************************************************************)
\* Texts of the exceptions the libraries raise.
DecodeErrorMsg == <<"c", "a", "n", "n", "o", "t", " ", "i", "d", "e", "n", "t", "i", "f", "y", " ", "i", "m", "a", "g", "e", " ", "f", "i", "l", "e">>
ApiErrorMsg == <<"C", "o", "n", "n", "e", "c", "t", "i", "o", "n", " ", "e", "r", "r", "o", "r", ".">>
NoneStripMsg == <<"'", "N", "o", "n", "e", "T", "y", "p", "e", "'", " ", "o", "b", "j", "e", "c", "t", " ", "h", "a", "s", " ", "n", "o", " ", "a", "t", "t", "r", "i", "b", "u", "t", "e", " ", "'", "s", "t", "r", "i", "p", "'">>

\* The answer of the remote service, as returned (before strip()).
RawAnswer1 == <<" ", "H", "1", "7", " ", "2", "4", "7", "deg", "F", " ", "1", "6", "P", "\n">>

\* What the world does at one invocation of extract_text_from_image: whether
\* the image decodes, whether the remote call returns, and the content of
\* the answer (None or a str).
Outcomes ==
    { [image_ok |-> FALSE, api_ok |-> TRUE, none |-> FALSE, content |-> <<>>],
      [image_ok |-> TRUE, api_ok |-> FALSE, none |-> FALSE, content |-> <<>>],
      [image_ok |-> TRUE, api_ok |-> TRUE, none |-> TRUE, content |-> <<>>],
      [image_ok |-> TRUE, api_ok |-> TRUE, none |-> FALSE, content |-> RawAnswer1] }

\* encode_image_to_base64(image_path): the payload, or the exception of
\* Image.open / convert / save.
encode_image_to_base64(image_path, o) ==
    IF o.image_ok
    THEN [raised |-> FALSE, msg |-> <<>>, value |-> <<"base64", image_path>>]
    ELSE [raised |-> TRUE, msg |-> DecodeErrorMsg, value |-> <<>>]

\* client.chat.completions.create(...): the response, or the exception.
ChatCompletionsCreate(base64_image, o) ==
    IF o.api_ok
    THEN [raised |-> FALSE, msg |-> <<>>, none |-> o.none, content |-> o.content]
    ELSE [raised |-> TRUE, msg |-> ApiErrorMsg, none |-> FALSE, content |-> <<>>]

\* The mutant of ExtractBody that calls the remote service again when the
\* first call raises.
ExtractBodyRetry(image_path, o) ==
    LET enc == encode_image_to_base64(image_path, o)
    IN  IF enc.raised
        THEN [raised |-> TRUE, msg |-> enc.msg, value |-> <<>>, calls |-> 0]
        ELSE LET response == ChatCompletionsCreate(enc.value, o)
             IN  IF response.raised
                 THEN [raised |-> TRUE, msg |-> response.msg, value |-> <<>>, calls |-> 2]
                 ELSE IF response.none
                 THEN [raised |-> TRUE, msg |-> NoneStripMsg, value |-> <<>>, calls |-> 1]
                 ELSE [raised |-> FALSE, msg |-> <<>>,
                       value |-> strip(response.content), calls |-> 1]

\* extract_text_from_image, lines 39-103: the body of the try.  calls is the
\* number of calls of client.chat.completions.create it issued.
ExtractBody(image_path, o) ==
    LET enc == encode_image_to_base64(image_path, o)
    IN  IF enc.raised
        THEN [raised |-> TRUE, msg |-> enc.msg, value |-> <<>>, calls |-> 0]
        ELSE LET response == ChatCompletionsCreate(enc.value, o)
             IN  IF response.raised
                 THEN [raised |-> TRUE, msg |-> response.msg, value |-> <<>>, calls |-> 1]
                 ELSE IF response.none
                 THEN [raised |-> TRUE, msg |-> NoneStripMsg, value |-> <<>>, calls |-> 1]
                 ELSE [raised |-> FALSE, msg |-> <<>>,
                       value |-> strip(response.content), calls |-> 1]

ErrorProcessing == <<"E", "r", "r", "o", "r", " ", "p", "r", "o", "c", "e", "s", "s", "i", "n", "g", " ">>

\* The mutant of extract_text_from_image without the except clause.
extract_text_from_image_uncaught(image_path, o) == ExtractBody(image_path, o)

\* extract_text_from_image, lines 38-106
extract_text_from_image(image_path, o) ==
    LET body == ExtractBody(image_path, o)
    IN  IF body.raised
        THEN [raised |-> FALSE, msg |-> <<>>,
              value |-> ErrorProcessing \o image_path \o <<":", " ">> \o body.msg,
              calls |-> body.calls]
        ELSE body

(***************************************************************************)
(* The environment check.                                                  *)
(***************************************************************************)
\* The mutant of check_environment that reports a failed probe and returns.
check_environment_lenient(key_present, probe_ok) ==
    IF ~key_present
    THEN [raised |-> TRUE, out |-> <<>>]
    ELSE [raised |-> FALSE, out |-> <<"connected">>]

\* check_environment, lines 112-120: the exception it raises, the notices
\* it prints.
check_environment(key_present, probe_ok) ==
    IF ~key_present
    THEN [raised |-> TRUE, out |-> <<>>]
    ELSE IF probe_ok
    THEN [raised |-> FALSE, out |-> <<"connected">>]
    ELSE [raised |-> TRUE, out |-> <<>>]

(***************************************************************************)
(* The state.                                                              *)
(***************************************************************************)
\* The processes that execute main().
Runs == {1, 2}

\* extracted_text[:100], line 193
PreviewLen == 100

VARIABLES
    listing,            \* what os.listdir(images_dir) returns
    output_dir_exists,  \* os.path.exists(output_dir)
    fs,                 \* the files under output_dir: path -> content, openers
    clock,              \* the wall clock, in ticks
    pc,                 \* where each run is in main()
    image_files,        \* main's image_files
    timestamp,          \* main's timestamp
    i,                  \* the index of the loop at hand (enumerate from 1)
    f,                  \* the file object of the with statement at hand
    console,            \* the notices each run printed, in order
    hist                \* history of each run: clock reading, fatal condition,
                        \* calls made, last extraction, failed extractions

vars == <<listing, output_dir_exists, fs, clock, pc, image_files, timestamp, i, f,
          console, hist>>

NoHandle == [open |-> FALSE, path |-> <<>>, pos |-> 0]

NoCall == [valid |-> FALSE, pass |-> 0, index |-> 0, path |-> <<>>,
           outcome |-> [image_ok |-> FALSE, api_ok |-> FALSE, none |-> FALSE,
                        content |-> <<>>],
           raised |-> FALSE, value |-> <<>>, calls |-> 0]

\* The listings of the images directory: no entry twice, any order.
Listings ==
    UNION { { l \in [1..n -> FileNames] : \A j, k \in 1..n : j # k => l[j] # l[k] }
            : n \in 0..MaxFiles }

\* The clock at the start: the last tick of second 58 of a minute.
InitClock == 59 * TicksPerSecond - 1

InitShared ==
    /\ output_dir_exists \in BOOLEAN
    /\ fs = [p \in {} |-> 0]
    /\ clock = InitClock
    /\ image_files = [r \in Runs |-> <<>>]
    /\ timestamp = [r \in Runs |-> <<>>]
    /\ i = [r \in Runs |-> 0]
    /\ f = [r \in Runs |-> NoHandle]
    /\ console = [r \in Runs |-> <<>>]
    /\ hist = [r \in Runs |-> [now |-> -1, fatal |-> "none", extract_calls |-> 0,
                               remote_calls |-> 0, undecodable |-> 0,
                               last |-> NoCall, failed |-> {}]]

\* One run of the batch.
Init ==
    /\ listing \in Listings
    /\ pc = [r \in Runs |-> IF r = 1 THEN "start" ELSE "absent"]
    /\ InitShared

\* Two runs of the batch over one image.
InitTwo ==
    /\ listing = << <<"a", ".", "j", "p", "g">> >>
    /\ pc = [r \in Runs |-> "start"]
    /\ InitShared

(***************************************************************************)
(* Files.                                                                  *)
(***************************************************************************)
\* open(path, 'w'): creates the file or truncates it; the position is 0.
OpenW(files, path, r) ==
    [p \in DOMAIN files \cup {path} |->
        IF p = path
        THEN [content |-> <<>>,
              openers |-> (IF path \in DOMAIN files THEN files[path].openers ELSE {})
                            \cup {r}]
        ELSE files[p]]

\* f.write(item) at position pos: past the end the gap reads as holes.
WriteAt(content, pos, item) ==
    IF pos < Len(content)
    THEN [content EXCEPT ![pos + 1] = item]
    ELSE content \o [k \in 1..(pos - Len(content)) |-> [kind |-> "hole"]] \o <<item>>

Write(files, handle, item) ==
    [files EXCEPT ![handle.path].content = WriteAt(@, handle.pos, item)]

\* s[:n]
Slice(s, n) == SubSeq(s, 1, IF Len(s) < n THEN Len(s) ELSE n)

(***************************************************************************)
(* main().                                                                 *)
(***************************************************************************)
\* main, lines 196-197: the except clause prints one notice and main returns.
Abort(r) ==
    /\ console' = [console EXCEPT ![r] = Append(@, "error")]
    /\ pc' = [pc EXCEPT ![r] = "done"]

\* The fatal condition the world presents to a step of the run, kept in the
\* history ("none": no such condition).
Met(r, condition) ==
    hist' = [hist EXCEPT ![r].fatal = IF condition = "none" THEN @ ELSE condition]

\* main, line 125
CheckEnvironment(r) ==
    /\ pc[r] = "start"
    /\ \E key_present \in BOOLEAN, probe_ok \in BOOLEAN :
         LET res == check_environment(key_present, probe_ok)
         IN  /\ Met(r, IF ~key_present THEN "credential"
                       ELSE IF ~probe_ok THEN "probe" ELSE "none")
             /\ IF res.raised
                THEN Abort(r)
                ELSE /\ console' = [console EXCEPT ![r] = @ \o res.out]
                     /\ pc' = [pc EXCEPT ![r] = "mkdir"]
    /\ UNCHANGED <<listing, output_dir_exists, fs, clock, image_files, timestamp, i, f>>

\* main, lines 128-130
MakeOutputDir(r) ==
    /\ pc[r] = "mkdir"
    /\ \E makedirs_ok \in BOOLEAN :
         IF output_dir_exists \/ makedirs_ok
         THEN /\ output_dir_exists' = TRUE
              /\ pc' = [pc EXCEPT ![r] = "list"]
              /\ UNCHANGED <<console, hist>>
         ELSE /\ Abort(r)
              /\ Met(r, "mkdir")
              /\ UNCHANGED output_dir_exists
    /\ UNCHANGED <<listing, fs, clock, image_files, timestamp, i, f>>

\* The mutant of ListImages that goes on with an empty list.
ListImagesNoReturn(r) ==
    /\ pc[r] = "list"
    /\ \E listdir_ok \in BOOLEAN :
         IF ~listdir_ok
         THEN /\ Abort(r)
              /\ Met(r, "listdir")
              /\ UNCHANGED image_files
         ELSE /\ image_files' = [image_files EXCEPT ![r] = sort(CollectImages(listing))]
              /\ pc' = [pc EXCEPT ![r] = "stamp"]
              /\ UNCHANGED <<console, hist>>
    /\ UNCHANGED <<listing, output_dir_exists, fs, clock, timestamp, i, f>>

\* main, lines 133-146
ListImages(r) ==
    /\ pc[r] = "list"
    /\ \E listdir_ok \in BOOLEAN :
         IF ~listdir_ok
         THEN /\ Abort(r)
              /\ Met(r, "listdir")
              /\ UNCHANGED image_files
         ELSE LET found == CollectImages(listing)
              IN  IF found = <<>>
                  THEN /\ console' = [console EXCEPT ![r] = Append(@, "no_images")]
                       /\ pc' = [pc EXCEPT ![r] = "done"]
                       /\ UNCHANGED <<image_files, hist>>
                  ELSE /\ image_files' = [image_files EXCEPT ![r] = sort(found)]
                       /\ pc' = [pc EXCEPT ![r] = "stamp"]
                       /\ UNCHANGED <<console, hist>>
    /\ UNCHANGED <<listing, output_dir_exists, fs, clock, timestamp, i, f>>

\* main, lines 149-153: datetime.now() reads the clock, which has advanced
\* since it was last read.
Stamp(r) ==
    /\ pc[r] = "stamp"
    /\ \E d \in 0..MaxAdvance :
         /\ clock' = clock + d
         /\ timestamp' = [timestamp EXCEPT ![r] = strftime(clock + d)]
         /\ hist' = [hist EXCEPT ![r].now = clock + d]
    /\ console' = [console EXCEPT ![r] = @ \o <<"processing_n", "output_will_be">>]
    /\ pc' = [pc EXCEPT ![r] = "open_report"]
    /\ UNCHANGED <<listing, output_dir_exists, fs, image_files, i, f>>

\* The mutant of OpenReport that creates the summary together with the report.
OpenReportAndSummary(r) ==
    /\ pc[r] = "open_report"
    /\ LET output_file == ReportPath(timestamp[r])
           summary_file == SummaryPath(timestamp[r])
           handle == [open |-> TRUE, path |-> output_file, pos |-> 0]
           summary == [open |-> TRUE, path |-> summary_file, pos |-> 0]
       IN  /\ fs' = Write(OpenW(Write(OpenW(fs, output_file, r), handle,
                                      [kind |-> "report_header",
                                       total |-> Len(image_files[r])]),
                                summary_file, r), summary,
                          [kind |-> "summary_header", total |-> Len(image_files[r])])
           /\ f' = [f EXCEPT ![r] = [handle EXCEPT !.pos = 1]]
    /\ i' = [i EXCEPT ![r] = 1]
    /\ pc' = [pc EXCEPT ![r] = "detail"]
    /\ UNCHANGED <<listing, output_dir_exists, clock, image_files, timestamp, console, hist>>

\* main, lines 150 and 155-161: the report is opened and its header written
\* (the line of the extraction date is left out of the header).
OpenReport(r) ==
    /\ pc[r] = "open_report"
    /\ LET output_file == ReportPath(timestamp[r])
           handle == [open |-> TRUE, path |-> output_file, pos |-> 0]
       IN  /\ fs' = Write(OpenW(fs, output_file, r), handle,
                          [kind |-> "report_header", total |-> Len(image_files[r])])
           /\ f' = [f EXCEPT ![r] = [handle EXCEPT !.pos = 1]]
    /\ i' = [i EXCEPT ![r] = 1]
    /\ pc' = [pc EXCEPT ![r] = "detail"]
    /\ UNCHANGED <<listing, output_dir_exists, clock, image_files, timestamp, console, hist>>

\* What an invocation of extract_text_from_image adds to the history.
Record(h, pass, index, image_path, o, res) ==
    [h EXCEPT !.extract_calls = @ + 1,
              !.remote_calls = @ + res.calls,
              !.undecodable = IF o.image_ok THEN @ ELSE @ + 1,
              !.last = [valid |-> TRUE, pass |-> pass, index |-> index,
                        path |-> image_path, outcome |-> o, raised |-> res.raised,
                        value |-> res.value, calls |-> res.calls],
              !.failed = IF pass = 1 /\ ~(o.image_ok /\ o.api_ok /\ ~o.none)
                         THEN @ \cup {index} ELSE @]

\* main, lines 163-173: one iteration of the detail loop.  An exception of
\* extract_text_from_image would leave the with statement, which closes the
\* report, and reach the except clause of main.
DetailStep(r) ==
    /\ pc[r] = "detail"
    /\ i[r] <= Len(image_files[r])
    /\ \E o \in Outcomes :
         LET image_path == image_files[r][i[r]]
             res == extract_text_from_image(image_path, o)
             h == Record(hist[r], 1, i[r], image_path, o, res)
         IN  IF res.raised
             THEN /\ console' = [console EXCEPT ![r] = @ \o <<"processing", "error">>]
                  /\ hist' = [hist EXCEPT ![r] = [h EXCEPT !.fatal = "extract"]]
                  /\ pc' = [pc EXCEPT ![r] = "done"]
                  /\ f' = [f EXCEPT ![r] = NoHandle]
                  /\ UNCHANGED <<fs, i>>
             ELSE /\ console' = [console EXCEPT ![r] = Append(@, "processing")]
                  /\ hist' = [hist EXCEPT ![r] = h]
                  /\ fs' = Write(fs, f[r], [kind |-> "block", index |-> i[r],
                                            name |-> basename(image_path),
                                            text |-> res.value])
                  /\ f' = [f EXCEPT ![r].pos = @ + 1]
                  /\ i' = [i EXCEPT ![r] = @ + 1]
                  /\ pc' = pc
    /\ UNCHANGED <<listing, output_dir_exists, clock, image_files, timestamp>>

\* The mutant of CloseReport whose loop ends one image early.
CloseReportEarly(r) ==
    /\ pc[r] = "detail"
    /\ i[r] >= Len(image_files[r])
    /\ f' = [f EXCEPT ![r] = NoHandle]
    /\ console' = [console EXCEPT ![r] = @ \o <<"completed", "results_saved">>]
    /\ pc' = [pc EXCEPT ![r] = "open_summary"]
    /\ UNCHANGED <<listing, output_dir_exists, fs, clock, image_files, timestamp, i, hist>>

\* main, lines 174-176: the detail loop is over, the with statement closes
\* the report.
CloseReport(r) ==
    /\ pc[r] = "detail"
    /\ i[r] > Len(image_files[r])
    /\ f' = [f EXCEPT ![r] = NoHandle]
    /\ console' = [console EXCEPT ![r] = @ \o <<"completed", "results_saved">>]
    /\ pc' = [pc EXCEPT ![r] = "open_summary"]
    /\ UNCHANGED <<listing, output_dir_exists, fs, clock, image_files, timestamp, i, hist>>

\* main, lines 179-184: the summary is opened and its header written (the
\* line of the date is left out of the header).
OpenSummary(r) ==
    /\ pc[r] = "open_summary"
    /\ LET summary_file == SummaryPath(timestamp[r])
           handle == [open |-> TRUE, path |-> summary_file, pos |-> 0]
       IN  /\ fs' = Write(OpenW(fs, summary_file, r), handle,
                          [kind |-> "summary_header", total |-> Len(image_files[r])])
           /\ f' = [f EXCEPT ![r] = [handle EXCEPT !.pos = 1]]
    /\ i' = [i EXCEPT ![r] = 1]
    /\ pc' = [pc EXCEPT ![r] = "summary"]
    /\ UNCHANGED <<listing, output_dir_exists, clock, image_files, timestamp, console, hist>>

\* main, line 188
WordCount(text) == Len(split(text))

\* The mutant of CharCount that counts the bytes of the UTF-8 encoding (the
\* degree sign takes two).
RECURSIVE CharCountUtf8(_)
CharCountUtf8(text) ==
    IF text = <<>> THEN 0
    ELSE (IF Head(text) = "deg" THEN 2 ELSE 1) + CharCountUtf8(Tail(text))

\* main, line 189
CharCount(text) == Len(text)

\* main, lines 186-193: one iteration of the summary loop.
SummaryStep(r) ==
    /\ pc[r] = "summary"
    /\ i[r] <= Len(image_files[r])
    /\ \E o \in Outcomes :
         LET image_path == image_files[r][i[r]]
             res == extract_text_from_image(image_path, o)
             h == Record(hist[r], 2, i[r], image_path, o, res)
         IN  IF res.raised
             THEN /\ console' = [console EXCEPT ![r] = Append(@, "error")]
                  /\ hist' = [hist EXCEPT ![r] = [h EXCEPT !.fatal = "extract"]]
                  /\ pc' = [pc EXCEPT ![r] = "done"]
                  /\ f' = [f EXCEPT ![r] = NoHandle]
                  /\ UNCHANGED <<fs, i>>
             ELSE /\ hist' = [hist EXCEPT ![r] = h]
                  /\ fs' = Write(fs, f[r], [kind |-> "entry", index |-> i[r],
                                            name |-> basename(image_path),
                                            words |-> WordCount(res.value),
                                            chars |-> CharCount(res.value),
                                            preview |-> Slice(res.value, PreviewLen)
                                                          \o <<".", ".", ".">>])
                  /\ f' = [f EXCEPT ![r].pos = @ + 1]
                  /\ i' = [i EXCEPT ![r] = @ + 1]
                  /\ UNCHANGED <<console, pc>>
    /\ UNCHANGED <<listing, output_dir_exists, clock, image_files, timestamp>>

\* main, lines 194-195: the summary loop is over, the with statement closes
\* the summary, main returns.
CloseSummary(r) ==
    /\ pc[r] = "summary"
    /\ i[r] > Len(image_files[r])
    /\ f' = [f EXCEPT ![r] = NoHandle]
    /\ console' = [console EXCEPT ![r] = Append(@, "summary_saved")]
    /\ pc' = [pc EXCEPT ![r] = "done"]
    /\ UNCHANGED <<listing, output_dir_exists, fs, clock, image_files, timestamp, i, hist>>

Next ==
    \E r \in Runs :
        \/ CheckEnvironment(r)
        \/ MakeOutputDir(r)
        \/ ListImages(r)
        \/ Stamp(r)
        \/ OpenReport(r)
        \/ DetailStep(r)
        \/ CloseReport(r)
        \/ OpenSummary(r)
        \/ SummaryStep(r)
        \/ CloseSummary(r)

\* One run.
Spec == Init /\ [][Next]_vars

\* Two runs, one after the other or interleaved.
SpecTwo == InitTwo /\ [][Next]_vars

(***************************************************************************)
(* What the claims speak of.                                               *)
(***************************************************************************)
\* The run has read the clock and named its files.
Stamped(r) == hist[r].now >= 0

ReportExists(r) == Stamped(r) /\ ReportPath(timestamp[r]) \in DOMAIN fs
SummaryExists(r) == Stamped(r) /\ SummaryPath(timestamp[r]) \in DOMAIN fs
ReportOf(r) == fs[ReportPath(timestamp[r])].content
SummaryOf(r) == fs[SummaryPath(timestamp[r])].content

\* No run holds the file open.
Closed(path) == \A r \in Runs : ~(f[r].open /\ f[r].path = path)

\* The files the run opened.
OpenedBy(r) == { p \in DOMAIN fs : r \in fs[p].openers }

Count(seq, x) == Cardinality({ k \in 1..Len(seq) : seq[k] = x })

\* sub occurs in s.
Contains(s, sub) ==
    \E k \in 1..(Len(s) - Len(sub) + 1) : SubSeq(s, k, k + Len(sub) - 1) = sub

\* t is raw without its leading and trailing whitespace.
IsTrimOf(t, raw) ==
    /\ Len(t) <= Len(raw)
    /\ t # <<>> => ~IsSpace(t[1]) /\ ~IsSpace(t[Len(t)])
    /\ \E a \in 0..(Len(raw) - Len(t)) :
         /\ \A k \in 1..a : IsSpace(raw[k])
         /\ \A k \in (a + Len(t) + 1)..Len(raw) : IsSpace(raw[k])
         /\ t = SubSeq(raw, a + 1, a + Len(t))

\* The invocation failed inside: the image did not decode, the remote call
\* raised, or the answer was null.
Failed(o) == ~o.image_ok \/ ~o.api_ok \/ o.none

FailureMessage(o) ==
    IF ~o.image_ok THEN DecodeErrorMsg ELSE IF ~o.api_ok THEN ApiErrorMsg ELSE NoneStripMsg

\* The form "Error processing {path}: {message}".
IsErrorString(t, path, message) ==
    /\ t = ErrorProcessing \o path \o <<":", " ">> \o message
    /\ startswith(t, ErrorProcessing)
    /\ Contains(t, path)

\* The file names with a supported extension in the listing.
Discovered == { listing[k] : k \in { j \in 1..Len(listing) : IsImageFile(listing[j]) } }

\* names is the lexicographically sorted list of the file names in D: it
\* holds exactly the names of D, each smaller than the next.
IsSortedListOf(names, D) ==
    /\ { names[k] : k \in 1..Len(names) } = D
    /\ \A k \in 1..(Len(names) - 1) : StrLess(names[k], names[k + 1])

\* The number of whitespace-separated words of a text: the places where a
\* word starts.
WordsOf(t) ==
    Cardinality({ k \in 1..Len(t) : ~IsSpace(t[k]) /\ (k = 1 \/ IsSpace(t[k - 1])) })

\* "H17 247°F 16P"
H17Text == <<"H", "1", "7", " ", "2", "4", "7", "deg", "F", " ", "1", "6", "P">>

FatalConditions == {"credential", "probe", "mkdir", "listdir"}

(***************************************************************************)
(* The claims.                                                             *)
(***************************************************************************)
\* C1: extract_text_from_image never raises: when something fails inside it
\* (decoding, the remote call, a null answer) it returns "Error processing
\* {path}: {message}", which starts with "Error processing" and contains the
\* path; otherwise it returns the remote answer without its surrounding
\* whitespace.
C1_ExtractNeverRaises ==
    \A r \in Runs :
        LET c == hist[r].last
        IN  c.valid =>
              /\ ~c.raised
              /\ IF Failed(c.outcome)
                 THEN IsErrorString(c.value, c.path, FailureMessage(c.outcome))
                 ELSE IsTrimOf(c.value, c.outcome.content)

\* An invocation whose answer was null returned its error string.
C1_Witness ==
    \E r \in Runs :
        /\ hist[r].last.valid
        /\ hist[r].last.outcome.none
        /\ startswith(hist[r].last.value, ErrorProcessing)

\* C2: a per-image failure never stops the batch: a run that discovered
\* N >= 1 images ends with a report of a header that counts N and exactly N
\* image blocks, the block of each failed image holding its error string.
C2_FailureKeepsBatch ==
    \A r \in Runs :
        (pc[r] = "done" /\ image_files[r] # <<>>) =>
            /\ ReportExists(r)
            /\ LET N == Len(image_files[r])
                   report == ReportOf(r)
               IN  /\ Len(report) = N + 1
                   /\ report[1] = [kind |-> "report_header", total |-> N]
                   /\ \A k \in 1..N :
                        /\ report[k + 1].kind = "block"
                        /\ report[k + 1].index = k
                        /\ k \in hist[r].failed =>
                             /\ startswith(report[k + 1].text, ErrorProcessing)
                             /\ Contains(report[k + 1].text, image_files[r][k])

\* A run of two images ended; the first image failed, the second did not.
C2_Witness ==
    \E r \in Runs :
        /\ pc[r] = "done"
        /\ Len(image_files[r]) = 2
        /\ hist[r].failed = {1}
        /\ Len(ReportOf(r)) = 3
        /\ ~startswith(ReportOf(r)[3].text, ErrorProcessing)

\* C3: the order of the blocks of the report and of the entries of the
\* summary is the lexicographic order of the discovered file names, whatever
\* the order of the listing; it is fixed before the first extraction and is
\* the same in both files.
C3_SortedOrder ==
    \A r \in Runs :
        (pc[r] \notin {"absent", "start", "mkdir", "list"} /\ image_files[r] # <<>>) =>
            LET names == [k \in 1..Len(image_files[r]) |-> basename(image_files[r][k])]
            IN  /\ IsSortedListOf(names, Discovered)
                /\ \A k \in 1..Len(image_files[r]) :
                     image_files[r][k] = join(images_dir, names[k])
                /\ ReportExists(r) =>
                     \A k \in 2..Len(ReportOf(r)) :
                         /\ ReportOf(r)[k].index = k - 1
                         /\ ReportOf(r)[k].name = names[k - 1]
                /\ SummaryExists(r) =>
                     \A k \in 2..Len(SummaryOf(r)) :
                         /\ SummaryOf(r)[k].index = k - 1
                         /\ SummaryOf(r)[k].name = names[k - 1]

\* The listing returned a.jpg before C.BMP; both files are written.
C3_Witness ==
    \E r \in Runs :
        /\ pc[r] = "done"
        /\ listing = << <<"a", ".", "j", "p", "g">>, <<"C", ".", "B", "M", "P">> >>
        /\ SummaryExists(r)
        /\ Len(SummaryOf(r)) = 3
        /\ Len(ReportOf(r)) = 3

\* C4: each fatal condition (no credential, failed probe, output directory
\* not creatable, input directory not listable) ends the run before any
\* image is processed: no extraction, no file, one error notice, the last.
C4_FatalAborts ==
    \A r \in Runs :
        hist[r].fatal \in FatalConditions =>
            /\ pc[r] = "done"
            /\ hist[r].extract_calls = 0
            /\ hist[r].remote_calls = 0
            /\ OpenedBy(r) = {}
            /\ Count(console[r], "error") = 1
            /\ console[r][Len(console[r])] = "error"
            /\ Count(console[r], "processing") = 0

\* The probe failed.
C4_Witness ==
    \E r \in Runs : hist[r].fatal = "probe" /\ pc[r] = "done"

\* C5, as stated: whenever the listing holds no supported image, the run ends
\* with the "no images found" notice, no error notice, no extraction and no
\* file.
C5_Original ==
    \A r \in Runs :
        (pc[r] = "done" /\ Discovered = {}) =>
            /\ Count(console[r], "no_images") = 1
            /\ Count(console[r], "error") = 0
            /\ hist[r].extract_calls = 0
            /\ OpenedBy(r) = {}

\* C5, amended: the same of a run that met no fatal condition.
C5_NoImages ==
    \A r \in Runs :
        (pc[r] = "done" /\ Discovered = {} /\ hist[r].fatal = "none") =>
            /\ Count(console[r], "no_images") = 1
            /\ console[r][Len(console[r])] = "no_images"
            /\ Count(console[r], "error") = 0
            /\ hist[r].extract_calls = 0
            /\ hist[r].remote_calls = 0
            /\ OpenedBy(r) = {}
            /\ DOMAIN fs = {}

\* The listing holds n.txt alone and the run ended with the notice.
C5_Witness ==
    \E r \in Runs :
        /\ pc[r] = "done"
        /\ listing = << <<"n", ".", "t", "x", "t">> >>
        /\ hist[r].fatal = "none"
        /\ Count(console[r], "no_images") = 1

\* C6, as stated: the summary is not created before the last extraction of
\* the second pass has returned.
C6_Original ==
    \A r \in Runs :
        SummaryExists(r) =>
            /\ hist[r].last.pass = 2
            /\ hist[r].last.index = Len(image_files[r])

\* C6, amended: the summary is created after the N extractions of the first
\* pass have returned and before the first extraction of the second pass;
\* its entry k is written when the k-th extraction of the second pass has
\* returned, before the next one is invoked.
C6_SummaryAfterDetail ==
    \A r \in Runs :
        Stamped(r) =>
            IF SummaryExists(r)
            THEN /\ SummaryOf(r)[1].kind = "summary_header"
                 /\ hist[r].extract_calls = Len(image_files[r]) + (Len(SummaryOf(r)) - 1)
                 /\ \A k \in 2..Len(SummaryOf(r)) : SummaryOf(r)[k].kind = "entry"
            ELSE hist[r].extract_calls <= Len(image_files[r])

\* The summary holds its header alone: no extraction of the second pass yet.
C6_Witness ==
    \E r \in Runs :
        /\ SummaryExists(r)
        /\ Len(SummaryOf(r)) = 1
        /\ hist[r].extract_calls = Len(image_files[r])
        /\ hist[r].last.pass = 1

\* C7, as stated: the report names of two runs differ and neither run opens
\* the report of the other.
C7_Original ==
    \A r1, r2 \in Runs :
        (r1 # r2 /\ Stamped(r1) /\ Stamped(r2)) =>
            /\ ReportPath(timestamp[r1]) # ReportPath(timestamp[r2])
            /\ ReportExists(r1) => r2 \notin fs[ReportPath(timestamp[r1])].openers

\* C7, amended: the same of two runs that read the clock in different
\* wall-clock seconds.
C7_DistinctSeconds ==
    \A r1, r2 \in Runs :
        (r1 # r2 /\ Stamped(r1) /\ Stamped(r2)
           /\ WallSecond(hist[r1].now) # WallSecond(hist[r2].now)) =>
            /\ ReportPath(timestamp[r1]) # ReportPath(timestamp[r2])
            /\ SummaryPath(timestamp[r1]) # SummaryPath(timestamp[r2])
            /\ ReportExists(r1) => fs[ReportPath(timestamp[r1])].openers = {r1}
            /\ SummaryExists(r1) => fs[SummaryPath(timestamp[r1])].openers = {r1}

\* Two runs read the clock in different seconds and both wrote their report.
C7_Witness ==
    /\ Stamped(1) /\ Stamped(2)
    /\ WallSecond(hist[1].now) # WallSecond(hist[2].now)
    /\ pc[1] = "done" /\ pc[2] = "done"
    /\ ReportExists(1) /\ ReportExists(2)

\* The entry of the summary the last extraction of the second pass produced.
LastEntry(r) == SummaryOf(r)[hist[r].last.index + 1]

\* C8, as stated: the word count and the character count of a summary entry
\* are those of the text extracted for it; for "H17 247°F 16P" they are 3
\* and 14.
C8_Original ==
    \A r \in Runs :
        (hist[r].last.valid /\ hist[r].last.pass = 2) =>
            /\ LastEntry(r).words = WordsOf(hist[r].last.value)
            /\ LastEntry(r).chars = Len(hist[r].last.value)
            /\ hist[r].last.value = H17Text =>
                 LastEntry(r).words = 3 /\ LastEntry(r).chars = 14

\* C8, amended: for "H17 247°F 16P" they are 3 and 13.
C8_Counts ==
    \A r \in Runs :
        (hist[r].last.valid /\ hist[r].last.pass = 2) =>
            /\ LastEntry(r).kind = "entry"
            /\ LastEntry(r).words = WordsOf(hist[r].last.value)
            /\ LastEntry(r).chars = Len(hist[r].last.value)
            /\ hist[r].last.value = H17Text =>
                 LastEntry(r).words = 3 /\ LastEntry(r).chars = 13

\* The text extracted for an entry is "H17 247°F 16P".
C8_Witness ==
    \E r \in Runs :
        /\ hist[r].last.valid /\ hist[r].last.pass = 2
        /\ hist[r].last.value = H17Text
        /\ LastEntry(r).words = 3

\* C9, as stated: the remote extraction calls are as many as the invocations
\* of extract_text_from_image.
C9_Original ==
    \A r \in Runs : hist[r].remote_calls = hist[r].extract_calls

\* C9, amended: an invocation issues one remote call when the image decodes,
\* whether the call succeeds or fails, and none when it does not decode.
C9_OneCallPerDecodedImage ==
    \A r \in Runs :
        /\ hist[r].remote_calls = hist[r].extract_calls - hist[r].undecodable
        /\ hist[r].last.valid =>
             hist[r].last.calls = IF hist[r].last.outcome.image_ok THEN 1 ELSE 0

\* A remote call raised, an earlier image did not decode.
C9_Witness ==
    \E r \in Runs :
        /\ hist[r].last.valid
        /\ ~hist[r].last.outcome.api_ok
        /\ hist[r].last.calls = 1
        /\ hist[r].undecodable = 1
        /\ hist[r].remote_calls = hist[r].extract_calls - 1

\* C10: a summary exists only if the report of the same timestamp is
\* completely written (header and one block for each of the N sorted images)
\* and closed.
C10_SummaryOnlyAfterReport ==
    \A r \in Runs :
        SummaryExists(r) =>
            /\ ReportExists(r)
            /\ Closed(ReportPath(timestamp[r]))
            /\ Len(ReportOf(r)) = Len(image_files[r]) + 1
            /\ ReportOf(r)[1] = [kind |-> "report_header", total |-> Len(image_files[r])]
            /\ \A k \in 1..Len(image_files[r]) :
                 /\ ReportOf(r)[k + 1].kind = "block"
                 /\ ReportOf(r)[k + 1].name = basename(image_files[r][k])

\* The summary is being written, the report is complete.
C10_Witness ==
    \E r \in Runs :
        /\ SummaryExists(r)
        /\ pc[r] = "summary"
        /\ Len(ReportOf(r)) = 3

\* C10, the converse: a report exists only if a summary exists.  It fails
\* after the detail pass, before the summary is opened.
C10_Converse ==
    \A r \in Runs : ReportExists(r) => SummaryExists(r)

=============================================================================
